---- MODULE Spec2Model ----
(***************************************************************************)
(* Model of @fermion-app/sdk: the HLS manifest rewriting of the recorded   *)
(* and the live facade (processM3U8 / getM3U8PlaybackUrl), the streaming   *)
(* playlist loader of the live facade (getHlsPlaybackConfig,               *)
(* PlaylistLoader.load / patchM3U8), the derivation of the key bytes from  *)
(* the hex key, and the event bridge (setupEventListenersOnVideo,          *)
(* validateIframeEvent).                                                   *)
(*                                                                         *)
(* Text is a sequence of atoms.  An atom is a JavaScript substring that    *)
(* the code never looks into: the one-character atoms are the characters   *)
(* the code tests for ("\n", ",", "?", "/", "#", " ", "\r"), the longer    *)
(* atoms are the literals it compares with ("#EXTM3U", "#EXT-X-KEY",       *)
(* "IV=") and opaque runs of other characters ("seg1.ts", "0x1", ...).     *)
(* No concatenation of atoms used below spells another atom.               *)
(***************************************************************************)
EXTENDS Naturals, Sequences, FiniteSets

VARIABLES
    facade,       \* "recorded" (FermionRecordedVideo) or "live" (FermionLivestreamVideo)
    opts,         \* the PlaybackSourceOptions the page passes to the facade
    cdn,          \* the playlist text the CDN serves for the manifest URL
    responseOk,   \* Response.ok of the CDN's answer: FALSE for an HTTP error status
    playbackCalls, \* the getM3U8PlaybackUrl calls of a page that makes several, in order
    keyInsertedLeft, \* the value of keyInserted at the end of the latest rewrite
    loadBudget,   \* how many load() calls the HLS engine still issues
    pc,           \* getM3U8PlaybackUrl: "idle", "fetching", "resolved", "rejected"
    fetched,      \* the URLs handed to fetch(), in order
    m3u8Content,  \* the downloaded text once the fetch has resolved, else None
    outcome,      \* the value the promise resolved with or the error it rejected with
    blobs,        \* the texts of the blobs handed to URL.createObjectURL, in order
    hls,          \* the closure of the PlaylistLoader class from getHlsPlaybackConfig
    cbWrappers,   \* per callbacks object: the onSuccess wrappers load() installed on it
    inflight,     \* per callbacks object: loads the default loader has not finished
    lastSuccess,  \* what the last success report of the default loader led to
    keyArrays,    \* the Uint8Array of key bytes each playback-source method built
    listeners,    \* the window's 'message' listeners, in the order they were added
    subs,         \* how many times setupEventListenersOnVideo has been called
    eventCallbacks, \* per subscription: the eventCallbacks object of its closure
    regBudget,    \* how many callback registrations the page still makes
    registered,   \* per subscription and slot: the callbacks the page has passed
                  \* to the registration method, in the order of the calls
    disposed,     \* the subscriptions whose dispose() has been called
    missingMethod, \* the slot of the registration method the page called in the
                  \* last step, if the returned object has no such method
    delivery,     \* the message event of the last step, if it was one, and what
                  \* each handler did with it
    lastDispose   \* the dispose() call of the last step, if it was one: the
                  \* listeners before and after it

vars == <<facade, opts, cdn, responseOk, playbackCalls, keyInsertedLeft, loadBudget,
          pc, fetched, m3u8Content, outcome, blobs,
          hls, cbWrappers, inflight, lastSuccess, keyArrays,
          listeners, subs, eventCallbacks, regBudget, registered, disposed,
          missingMethod, delivery, lastDispose>>

None == "none"

(***************************************************************************)
(* Characters and string primitives                                        *)
(***************************************************************************)
NL == "\n"
KeyTag == "#EXT-X-KEY"
Header == "#EXTM3U"
IVAttr == "IV="

\* The atoms whose first character is '#'.
HashAtoms == {"#", Header, KeyTag}

\* The white space String.prototype.trim removes.
WhiteSpace == {" ", "\r", "\t"}

RECURSIVE TrimStart(_)
TrimStart(s) ==
    IF s # <<>> /\ Head(s) \in WhiteSpace THEN TrimStart(Tail(s)) ELSE s

RECURSIVE TrimEnd(_)
TrimEnd(s) ==
    IF s # <<>> /\ s[Len(s)] \in WhiteSpace
    THEN TrimEnd(SubSeq(s, 1, Len(s) - 1))
    ELSE s

\* String.prototype.trim
Trim(s) == TrimEnd(TrimStart(s))

\* String.prototype.split(sep), sep one character: always at least one part.
RECURSIVE SplitFrom(_, _, _, _)
SplitFrom(s, sep, i, cur) ==
    IF i > Len(s) THEN <<cur>>
    ELSE IF s[i] = sep THEN <<cur>> \o SplitFrom(s, sep, i + 1, <<>>)
    ELSE SplitFrom(s, sep, i + 1, Append(cur, s[i]))

Split(s, sep) == SplitFrom(s, sep, 1, <<>>)

\* Array.prototype.join(sep)
RECURSIVE Join(_, _)
Join(parts, sep) ==
    IF parts = <<>> THEN <<>>
    ELSE IF Len(parts) = 1 THEN parts[1]
    ELSE parts[1] \o <<sep>> \o Join(Tail(parts), sep)

\* Array.prototype.slice(0, -1)
SliceDropLast(parts) ==
    IF parts = <<>> THEN <<>> ELSE SubSeq(parts, 1, Len(parts) - 1)

\* String.prototype.startsWith('#EXT-X-KEY')
StartsWithKeyTag(line) == line # <<>> /\ line[1] = KeyTag

\* String.prototype.startsWith('#')
StartsWithHash(line) == line # <<>> /\ line[1] \in HashAtoms

\* String.prototype.includes('?')
IncludesQuery(line) == \E i \in 1..Len(line) : line[i] = "?"

\* String.prototype.substring(1) of a string that is empty or starts with a
\* one-character atom.
Substring1(s) == IF s = <<>> THEN <<>> ELSE Tail(s)

\* The run of characters other than ',' that starts at position i: [^,]+
RECURSIVE NonCommaRun(_, _)
NonCommaRun(line, i) ==
    IF i > Len(line) \/ line[i] = "," THEN <<>>
    ELSE <<line[i]>> \o NonCommaRun(line, i + 1)

\* line.match(/IV=([^,]+)/)?.[1]: the capture of the leftmost match, <<>> when
\* the pattern does not match (a capture is never empty).
RECURSIVE IVMatchFrom(_, _)
IVMatchFrom(line, i) ==
    IF i >= Len(line) THEN <<>>
    ELSE IF line[i] = IVAttr /\ line[i + 1] # "," THEN NonCommaRun(line, i + 1)
    ELSE IVMatchFrom(line, i + 1)

IVMatch(line) == IVMatchFrom(line, 1)

\* `#EXT-X-KEY:METHOD=AES-128,URI="${keyUri}",IV=${iv}`
PatchedKeyLine(keyUri, iv) ==
    <<KeyTag, ":METHOD=AES-128", ",", "URI=\"">> \o keyUri \o <<"\"", ",", IVAttr>> \o iv

IVError == "IV not found in #EXT-X-KEY line"

(***************************************************************************)
(* Key material: hex string -> bytes -> data URI                           *)
(***************************************************************************)
\* null, also as a template literal renders it
Null == <<"null">>

HexDigits == <<"0", "1", "2", "3", "4", "5", "6", "7", "8", "9",
               "a", "b", "c", "d", "e", "f">>

HexDigitsUpper == <<"0", "1", "2", "3", "4", "5", "6", "7", "8", "9",
                    "A", "B", "C", "D", "E", "F">>

\* parseInt(..., 16) reads the digits in either case.
IsHexDigit(c) == \E v \in 1..16 : HexDigits[v] = c \/ HexDigitsUpper[v] = c

HexValue(c) == (CHOOSE v \in 1..16 : HexDigits[v] = c \/ HexDigitsUpper[v] = c) - 1

\* ParseHexByte reading the second digit as the most significant one.
ParseHexByte_LowNibbleFirst(pair) ==
    IF pair = <<>> \/ ~IsHexDigit(pair[1]) THEN 0
    ELSE IF Len(pair) = 1 \/ ~IsHexDigit(pair[2]) THEN HexValue(pair[1])
    ELSE HexValue(pair[1]) + 16 * HexValue(pair[2])

\* parseInt(pair, 16) stored into a Uint8Array element: parseInt reads the
\* longest hex prefix; NaN is stored as 0.
ParseHexByte(pair) ==
    IF pair = <<>> \/ ~IsHexDigit(pair[1]) THEN 0
    ELSE IF Len(pair) = 1 \/ ~IsHexDigit(pair[2]) THEN HexValue(pair[1])
    ELSE 16 * HexValue(pair[1]) + HexValue(pair[2])

\* new Uint8Array(hex.length / 2) filled by the loop over i = 0, 2, 4, ...:
\* the array length is the integer part, a store past the end is dropped.
KeyBytes(hex) ==
    [j \in 1..(Len(hex) \div 2) |-> ParseHexByte(SubSeq(hex, 2 * j - 1, 2 * j))]

Base64Alphabet ==
    <<"A", "B", "C", "D", "E", "F", "G", "H", "I", "J", "K", "L", "M",
      "N", "O", "P", "Q", "R", "S", "T", "U", "V", "W", "X", "Y", "Z",
      "a", "b", "c", "d", "e", "f", "g", "h", "i", "j", "k", "l", "m",
      "n", "o", "p", "q", "r", "s", "t", "u", "v", "w", "x", "y", "z",
      "0", "1", "2", "3", "4", "5", "6", "7", "8", "9", "+", "/">>

B64(n) == Base64Alphabet[n + 1]

\* window.btoa(String.fromCharCode(...bytes))
RECURSIVE Btoa(_)
Btoa(bytes) ==
    IF bytes = <<>> THEN <<>>
    ELSE IF Len(bytes) = 1 THEN
        <<B64(bytes[1] \div 4), B64((bytes[1] % 4) * 16), "=", "=">>
    ELSE IF Len(bytes) = 2 THEN
        <<B64(bytes[1] \div 4),
          B64((bytes[1] % 4) * 16 + bytes[2] \div 16),
          B64((bytes[2] % 16) * 4), "=">>
    ELSE
        <<B64(bytes[1] \div 4),
          B64((bytes[1] % 4) * 16 + bytes[2] \div 16),
          B64((bytes[2] % 16) * 4 + bytes[3] \div 64),
          B64(bytes[3] % 64)>> \o Btoa(SubSeq(bytes, 4, Len(bytes)))

\* `data:text/plain;base64,${window.btoa(...)}`
KeyUriOf(hex) == <<"data:text/plain;base64", ",">> \o Btoa(KeyBytes(hex))

\* recorded facade: the key URI is always built from decryptionKey
RecordedKeyUri(key) == KeyUriOf(key)

\* live facade: `if (clearkeyDecryptionKeyInHex) ... else keyUri = null`
LiveKeyUri(key) == IF key # Null /\ key # <<>> THEN KeyUriOf(key) ELSE Null

\* The Uint8Array a playback-source method builds, <<>> when it builds none:
\* the recorded facade always builds one, the live facade only inside
\* `if (clearkeyDecryptionKeyInHex)`, which null and '' do not enter.
DerivedKeyArray(which, key) ==
    IF which = "recorded" \/ (key # Null /\ key # <<>>) THEN <<KeyBytes(key)>> ELSE <<>>


\* SegmentBaseUrl without `.slice(0, -1)`.
SegmentBaseUrl_KeepsLastSegment(origin, pathname) ==
    origin \o Join(Split(pathname, "/"), "/")

\* `${origin}${m3u8Pathname.split('/').slice(0, -1).join('/')}`
SegmentBaseUrl(origin, pathname) ==
    origin \o Join(SliceDropLast(Split(pathname, "/")), "/")

\* `${origin}${m3u8Pathname}${signedUrlSearchParams}`
ManifestUrl(o) == o.origin \o o.pathname \o o.signed

(***************************************************************************)
(* Offline rewrite: processM3U8 of the two facades                         *)
(***************************************************************************)
\* `${segmentBaseUrl}/${line}${signedUrlSearchParams}`
FullUrl(line, options) ==
    options.segmentBaseUrl \o <<"/">> \o line \o options.signedUrlSearchParams


\* KeyLineStep with the `if (!keyInserted)` test gone: every key line is patched.
KeyLineStep_AlwaysPatches(line, keyInserted, options) ==
    IF IVMatch(line) = <<>>
    THEN [threw |-> TRUE, push |-> <<>>, keyInserted |-> keyInserted]
    ELSE [threw |-> FALSE,
          push |-> <<PatchedKeyLine(options.keyUri, IVMatch(line))>>,
          keyInserted |-> TRUE]

\* KeyLineStep without `keyInserted = true`.
KeyLineStep_NeverMarksInserted(line, keyInserted, options) ==
    IF IVMatch(line) = <<>>
    THEN [threw |-> TRUE, push |-> <<>>, keyInserted |-> keyInserted]
    ELSE [threw |-> FALSE,
          push |-> IF ~keyInserted
                   THEN <<PatchedKeyLine(options.keyUri, IVMatch(line))>>
                   ELSE <<line>>,
          keyInserted |-> keyInserted]

\* KeyLineStep with the IV looked for only while no key line is patched yet.
KeyLineStep_ChecksIVOnce(line, keyInserted, options) ==
    IF keyInserted
    THEN [threw |-> FALSE, push |-> <<line>>, keyInserted |-> TRUE]
    ELSE IF IVMatch(line) = <<>>
    THEN [threw |-> TRUE, push |-> <<>>, keyInserted |-> keyInserted]
    ELSE [threw |-> FALSE,
          push |-> <<PatchedKeyLine(options.keyUri, IVMatch(line))>>,
          keyInserted |-> TRUE]

\* The body of the for loop for a line that starts with '#EXT-X-KEY' once the
\* key URI is known to be used: what is pushed, the flag, whether it threw.
KeyLineStep(line, keyInserted, options) ==
    IF IVMatch(line) = <<>>
    THEN [threw |-> TRUE, push |-> <<>>, keyInserted |-> keyInserted]
    ELSE [threw |-> FALSE,
          push |-> IF ~keyInserted
                   THEN <<PatchedKeyLine(options.keyUri, IVMatch(line))>>
                   ELSE <<line>>,
          keyInserted |-> TRUE]

\* The branches of the loop body that both facades share.
OtherLineStep(line, keyInserted, options) ==
    [threw |-> FALSE,
     push |-> IF line = <<Header>> THEN <<line>>
              ELSE IF line # <<>> /\ ~StartsWithHash(line) THEN <<FullUrl(line, options)>>
              ELSE <<line>>,
     keyInserted |-> keyInserted]

\* FermionRecordedVideo.processM3U8, one iteration (line is already trimmed)
RecordedLineStep(line, keyInserted, options) ==
    IF line # <<Header>> /\ StartsWithKeyTag(line)
    THEN KeyLineStep(line, keyInserted, options)
    ELSE OtherLineStep(line, keyInserted, options)


\* LiveLineStep without the `keyUri == null` branch.
LiveLineStep_NoNullCheck(line, keyInserted, options) ==
    IF line # <<Header>> /\ StartsWithKeyTag(line)
    THEN KeyLineStep(line, keyInserted, options)
    ELSE OtherLineStep(line, keyInserted, options)

\* LiveLineStep that takes the `keyUri == null` branch for every key URI.
LiveLineStep_AlwaysSkipsKeyLines(line, keyInserted, options) ==
    IF line # <<Header>> /\ StartsWithKeyTag(line)
    THEN [threw |-> FALSE, push |-> <<>>, keyInserted |-> keyInserted]
    ELSE OtherLineStep(line, keyInserted, options)

\* FermionLivestreamVideo.processM3U8, one iteration (line is already trimmed)
LiveLineStep(line, keyInserted, options) ==
    IF line # <<Header>> /\ StartsWithKeyTag(line)
    THEN IF options.keyUri = Null
         THEN [threw |-> FALSE, push |-> <<>>, keyInserted |-> keyInserted]
         ELSE KeyLineStep(line, keyInserted, options)
    ELSE OtherLineStep(line, keyInserted, options)

LineStep(which, line, keyInserted, options) ==
    IF which = "recorded"
    THEN RecordedLineStep(line, keyInserted, options)
    ELSE LiveLineStep(line, keyInserted, options)

\* The for loop over the lines from index i on.
RECURSIVE ProcessLoop(_, _, _, _, _, _)
ProcessLoop(which, lines, i, processedLines, keyInserted, options) ==
    IF i > Len(lines)
    THEN [threw |-> FALSE, text |-> Join(processedLines, NL)]
    ELSE LET step == LineStep(which, Trim(lines[i]), keyInserted, options)
         IN  IF step.threw
             THEN [threw |-> TRUE, text |-> <<>>]
             ELSE ProcessLoop(which, lines, i + 1, processedLines \o step.push,
                              step.keyInserted, options)

\* processM3U8(m3u8Content, options) of facade `which`
processM3U8(which, content, options) ==
    ProcessLoop(which, Split(content, NL), 1, <<>>, FALSE, options)

\* `let keyInserted = false` read as a flag that outlives the invocation.
KeyInsertedAtEntry_Shared(left) == left

\* `let keyInserted = false`: every invocation binds a new flag, whatever
\* value the flag of an earlier invocation was left with.
KeyInsertedAtEntry(left) == FALSE

\* processM3U8 invoked after an invocation that left its flag as `left`.
processM3U8After(left, which, content, options) ==
    ProcessLoop(which, Split(content, NL), 1, <<>>, KeyInsertedAtEntry(left), options)

\* The value of keyInserted when the for loop ends (or throws).
RECURSIVE KeyInsertedAtExit(_, _, _, _, _)
KeyInsertedAtExit(which, lines, i, keyInserted, options) ==
    IF i > Len(lines) THEN keyInserted
    ELSE LET step == LineStep(which, Trim(lines[i]), keyInserted, options)
         IN  IF step.threw THEN step.keyInserted
             ELSE KeyInsertedAtExit(which, lines, i + 1, step.keyInserted, options)

\* The options getM3U8PlaybackUrl hands to processM3U8.
M3U8Options(which, o) ==
    [segmentBaseUrl |-> SegmentBaseUrl(o.origin, o.pathname),
     signedUrlSearchParams |-> o.signed,
     keyUri |-> IF which = "recorded" THEN RecordedKeyUri(o.key) ELSE LiveKeyUri(o.key)]

(***************************************************************************)
(* Streaming rewrite: the PlaylistLoader class of createCustomLoader       *)
(***************************************************************************)

\* PatchLine without the `includes('?')` test.
PatchLine_AlwaysAppends(line, cfg) ==
    LET trimmedLine == Trim(line)
    IN  IF StartsWithKeyTag(trimmedLine) /\ cfg.keyUri # Null /\ cfg.keyUri # <<>>
        THEN IF IVMatch(trimmedLine) = <<>>
             THEN line
             ELSE PatchedKeyLine(cfg.keyUri, IVMatch(trimmedLine))
        ELSE IF trimmedLine = <<>> \/ StartsWithHash(trimmedLine)
        THEN line
        ELSE trimmedLine \o cfg.signedUrlParam

\* PatchLine without the `&& keyUri` test.
PatchLine_IgnoresKeyUri(line, cfg) ==
    LET trimmedLine == Trim(line)
    IN  IF StartsWithKeyTag(trimmedLine)
        THEN IF IVMatch(trimmedLine) = <<>>
             THEN line
             ELSE PatchedKeyLine(cfg.keyUri, IVMatch(trimmedLine))
        ELSE IF trimmedLine = <<>> \/ StartsWithHash(trimmedLine)
        THEN line
        ELSE IF IncludesQuery(trimmedLine)
        THEN trimmedLine \o <<"&">> \o Substring1(cfg.signedUrlParam)
        ELSE trimmedLine \o cfg.signedUrlParam

\* PatchLine that returns trimmedLine instead of line for blank and '#' lines.
PatchLine_TrimsComments(line, cfg) ==
    LET trimmedLine == Trim(line)
    IN  IF StartsWithKeyTag(trimmedLine) /\ cfg.keyUri # Null /\ cfg.keyUri # <<>>
        THEN IF IVMatch(trimmedLine) = <<>>
             THEN line
             ELSE PatchedKeyLine(cfg.keyUri, IVMatch(trimmedLine))
        ELSE IF trimmedLine = <<>> \/ StartsWithHash(trimmedLine)
        THEN trimmedLine
        ELSE IF IncludesQuery(trimmedLine)
        THEN trimmedLine \o <<"&">> \o Substring1(cfg.signedUrlParam)
        ELSE trimmedLine \o cfg.signedUrlParam

\* The callback of patchM3U8's map: one line of the fragment.
PatchLine(line, cfg) ==
    LET trimmedLine == Trim(line)
    IN  IF StartsWithKeyTag(trimmedLine) /\ cfg.keyUri # Null /\ cfg.keyUri # <<>>
        THEN IF IVMatch(trimmedLine) = <<>>
             THEN line
             ELSE PatchedKeyLine(cfg.keyUri, IVMatch(trimmedLine))
        ELSE IF trimmedLine = <<>> \/ StartsWithHash(trimmedLine)
        THEN line
        ELSE IF IncludesQuery(trimmedLine)
        THEN trimmedLine \o <<"&">> \o Substring1(cfg.signedUrlParam)
        ELSE trimmedLine \o cfg.signedUrlParam

\* PlaylistLoader.patchM3U8
patchM3U8(original, cfg) ==
    LET lines == Split(original, NL)
    IN  Join([i \in 1..Len(lines) |-> PatchLine(lines[i], cfg)], NL)

\* The load context types for which the wrapper rewrites.
PatchedTypes == {"manifest", "level"}


\* OnSuccessWrapper without the test of context.type.
OnSuccessWrapper_AnyType(type, response, cfg) ==
    IF response.kind = "string"
    THEN <<[response EXCEPT !.data = patchM3U8(@, cfg)]>>
    ELSE <<response>>

\* The onSuccess wrapper load() installs, for a load of context type `type`:
\* the calls it makes to originalSuccess, each with the response it passes.
OnSuccessWrapper(type, response, cfg) ==
    IF type \in PatchedTypes /\ response.kind = "string"
    THEN <<[response EXCEPT !.data = patchM3U8(@, cfg)]>>
    ELSE <<response>>

\* callbacks.onSuccess(response) on a callbacks object that carries the
\* wrappers chain[1..k]: wrapper k is the outermost, its originalSuccess is
\* wrapper k-1, and the originalSuccess of wrapper 1 is the engine's callback.
RECURSIVE RunOnSuccess(_, _, _, _)
RECURSIVE RunCalls(_, _, _, _)
RunOnSuccess(chain, k, response, cfg) ==
    IF k = 0
    THEN [steps |-> <<>>, engine |-> <<response>>]
    ELSE LET calls == OnSuccessWrapper(chain[k], response, cfg)
             rest  == RunCalls(chain, k - 1, calls, cfg)
         IN  [steps  |-> <<[type |-> chain[k], input |-> response, calls |-> calls]>>
                         \o rest.steps,
              engine |-> rest.engine]

RunCalls(chain, k, calls, cfg) ==
    IF calls = <<>>
    THEN [steps |-> <<>>, engine |-> <<>>]
    ELSE LET first == RunOnSuccess(chain, k, Head(calls), cfg)
             rest  == RunCalls(chain, k, Tail(calls), cfg)
         IN  [steps |-> first.steps \o rest.steps, engine |-> first.engine \o rest.engine]

(***************************************************************************)
(* Event bridge: setupEventListenersOnVideo of the two facades             *)
(***************************************************************************)
\* this.websiteHostname, as the constructor accepted it.
WebsiteHostname == <<"acme.fermion.app">>

\* String.prototype.includes(sub)
Includes(s, sub) ==
    \E i \in 1..(Len(s) - Len(sub) + 1) : SubSeq(s, i, i + Len(sub) - 1) = sub

\* Values of a property of event.data: absent, a number, NaN or a string.
Absent == [t |-> "absent", v |-> 0]
Num(n) == [t |-> "number", v |-> n]
NaNValue == [t |-> "nan", v |-> 0]
Str == [t |-> "string", v |-> 0]

\* z.number(): a value of type number other than NaN.
IsNumber(x) == x.t = "number"

\* event.data: an object with a type tag and possibly the two payload
\* properties, or something that is not an object.
ObjectData(type, duration, currentTime) ==
    [shape |-> "object", type |-> type,
     durationAtInSeconds |-> duration, currentTimeInSeconds |-> currentTime]
NonObjectData ==
    [shape |-> "string", type |-> "", durationAtInSeconds |-> Absent,
     currentTimeInSeconds |-> Absent]

\* The alternatives of iframeEventSchema in the order of the .or() chain: the
\* type literal and the number property the object must have.
SchemaAlternatives ==
    <<[type |-> "video:play", requires |-> "durationAtInSeconds"],
      [type |-> "video:pause", requires |-> "durationAtInSeconds"],
      [type |-> "video:ended", requires |-> ""],
      [type |-> "video:livestream-ended", requires |-> ""],
      [type |-> "webrtc:livestream-ended", requires |-> ""],
      [type |-> "video:time-updated", requires |-> "currentTimeInSeconds"]>>

\* One alternative accepts the data.
Matches(alt, data) ==
    /\ data.shape = "object"
    /\ data.type = alt.type
    /\ alt.requires = "durationAtInSeconds" => IsNumber(data.durationAtInSeconds)
    /\ alt.requires = "currentTimeInSeconds" => IsNumber(data.currentTimeInSeconds)

\* What the matching alternative returns: the object with the keys of that
\* alternative only (z.object strips the others).
Parsed(alt, data) ==
    ObjectData(data.type,
               IF alt.requires = "durationAtInSeconds"
               THEN data.durationAtInSeconds ELSE Absent,
               IF alt.requires = "currentTimeInSeconds"
               THEN data.currentTimeInSeconds ELSE Absent)

\* validateIframeEvent: iframeEventSchema.parse(data) returns the parsed event
\* of the first alternative that matches, or throws.
validateIframeEvent(data) ==
    LET matching == {a \in 1..Len(SchemaAlternatives) : Matches(SchemaAlternatives[a], data)}
    IN  IF matching = {}
        THEN [threw |-> TRUE, data |-> NonObjectData]
        ELSE [threw |-> FALSE,
              data |-> Parsed(SchemaAlternatives[CHOOSE a \in matching :
                                                    \A b \in matching : a <= b], data)]

\* The callback slots of eventCallbacks a facade declares.
AllSlots == {"play", "pause", "ended", "timeUpdated", "livestreamEnded"}
Slots(which) ==
    IF which = "recorded" THEN {"play", "pause", "ended"} ELSE AllSlots

\* A switch with a case that sends 'webrtc:livestream-ended' to livestreamEnded.
SlotOf_WebrtcDispatched(which, type) ==
    IF type = "video:play" THEN "play"
    ELSE IF type = "video:pause" THEN "pause"
    ELSE IF type = "video:ended" THEN "ended"
    ELSE IF type = "video:time-updated" /\ which = "live" THEN "timeUpdated"
    ELSE IF type \in {"video:livestream-ended", "webrtc:livestream-ended"} /\ which = "live"
    THEN "livestreamEnded"
    ELSE None

\* The switch of messageHandler: the slot whose callback a parsed event of
\* this type goes to, None when the switch has no case for the type.
SlotOf(which, type) ==
    IF type = "video:play" THEN "play"
    ELSE IF type = "video:pause" THEN "pause"
    ELSE IF type = "video:ended" THEN "ended"
    ELSE IF type = "video:time-updated" /\ which = "live" THEN "timeUpdated"
    ELSE IF type = "video:livestream-ended" /\ which = "live" THEN "livestreamEnded"
    ELSE None

\* The argument the switch passes to the callback of a slot.
NoArgument == [field |-> "", value |-> Absent]
ArgumentOf(slot, data) ==
    IF slot \in {"play", "pause"}
    THEN [field |-> "durationAtInSeconds", value |-> data.durationAtInSeconds]
    ELSE IF slot = "timeUpdated"
    THEN [field |-> "currentTimeInSeconds", value |-> data.currentTimeInSeconds]
    ELSE NoArgument

\* The callbacks a page registers: one that returns and one that throws.
Callbacks == {"callback", "throwingCallback"}
Throws(cb) == cb = "throwingCallback"

Quiet == [invoked |-> <<>>, warned |-> FALSE, threw |-> FALSE]


\* messageHandler without the test of event.origin.
messageHandler_NoOriginCheck(which, slots, event) ==
    LET parsed == validateIframeEvent(event.data)
        slot == SlotOf(which, parsed.data.type)
    IN  IF parsed.threw THEN [Quiet EXCEPT !.warned = TRUE]
        ELSE IF slot = None THEN Quiet
        ELSE IF slots[slot] = None THEN Quiet
        ELSE [invoked |-> <<[slot |-> slot, callback |-> slots[slot],
                             argument |-> ArgumentOf(slot, parsed.data)]>>,
              warned |-> Throws(slots[slot]),
              threw |-> FALSE]

\* messageHandler whose try block ends after validateIframeEvent, so that the
\* switch and the callbacks run outside of it.
messageHandler_DispatchOutsideTry(which, slots, event) ==
    IF ~Includes(event.origin, WebsiteHostname) THEN Quiet
    ELSE LET parsed == validateIframeEvent(event.data)
             slot == SlotOf(which, parsed.data.type)
         IN  IF parsed.threw THEN [Quiet EXCEPT !.warned = TRUE]
             ELSE IF slot = None THEN Quiet
             ELSE IF slots[slot] = None THEN Quiet
             ELSE [invoked |-> <<[slot |-> slot, callback |-> slots[slot],
                                  argument |-> ArgumentOf(slot, parsed.data)]>>,
                   warned |-> FALSE,
                   threw |-> Throws(slots[slot])]

\* messageHandler without the try/catch around validation and dispatch.
messageHandler_NoCatch(which, slots, event) ==
    IF ~Includes(event.origin, WebsiteHostname) THEN Quiet
    ELSE LET parsed == validateIframeEvent(event.data)
             slot == SlotOf(which, parsed.data.type)
         IN  IF parsed.threw THEN [Quiet EXCEPT !.threw = TRUE]
             ELSE IF slot = None THEN Quiet
             ELSE IF slots[slot] = None THEN Quiet
             ELSE [invoked |-> <<[slot |-> slot, callback |-> slots[slot],
                                  argument |-> ArgumentOf(slot, parsed.data)]>>,
                   warned |-> FALSE,
                   threw |-> Throws(slots[slot])]

\* messageHandler(event) of a subscription whose eventCallbacks are `slots`:
\* the callbacks it invokes, whether it calls console.warn, whether it throws.
messageHandler(which, slots, event) ==
    IF ~Includes(event.origin, WebsiteHostname) THEN Quiet
    ELSE LET parsed == validateIframeEvent(event.data)
             slot == SlotOf(which, parsed.data.type)
         IN  IF parsed.threw THEN [Quiet EXCEPT !.warned = TRUE]
             ELSE IF slot = None THEN Quiet
             ELSE IF slots[slot] = None THEN Quiet
             ELSE [invoked |-> <<[slot |-> slot, callback |-> slots[slot],
                                  argument |-> ArgumentOf(slot, parsed.data)]>>,
                   warned |-> Throws(slots[slot]),
                   threw |-> FALSE]

\* window.addEventListener('message', h): a listener is registered once.
AddListener(ls, h) ==
    IF \E i \in 1..Len(ls) : ls[i] = h THEN ls ELSE Append(ls, h)


\* removeEventListener that removes nothing.
RemoveListener_None(ls, h) == ls

\* removeEventListener that removes the last listener when h is not registered.
RemoveListener_LastWhenAbsent(ls, h) ==
    LET keep(x) == x # h
    IN  IF \E i \in 1..Len(ls) : ls[i] = h THEN SelectSeq(ls, keep)
        ELSE SubSeq(ls, 1, Len(ls) - 1)

\* window.removeEventListener('message', h): removes h if it is registered.
RemoveListener(ls, h) ==
    LET keep(x) == x # h
    IN  SelectSeq(ls, keep)


\* A registration that keeps the callback a slot already has.
SetCallback_KeepsFirst(slots, slot, cb) ==
    IF slots[slot] = None THEN [slots EXCEPT ![slot] = cb] ELSE slots

\* eventCallbacks.<slot> = callback
SetCallback(slots, slot, cb) == [slots EXCEPT ![slot] = cb]

\* The message listener the page itself has on the window.
PageListener == 0

\* A window whose handlers all read the callback slots of the first subscription.
RECURSIVE DispatchEvent_SharedCallbacks(_, _, _, _, _)
DispatchEvent_SharedCallbacks(which, callbacks, ls, i, event) ==
    IF i > Len(ls) THEN <<>>
    ELSE IF ls[i] = PageListener
         THEN DispatchEvent_SharedCallbacks(which, callbacks, ls, i + 1, event)
    ELSE LET result == messageHandler(which, callbacks[1], event)
         IN  <<[sub |-> ls[i], invoked |-> result.invoked,
                warned |-> result.warned, threw |-> result.threw]>>
             \o DispatchEvent_SharedCallbacks(which, callbacks, ls, i + 1, event)

\* The window delivers a message event to the listeners ls[i..], in order.
RECURSIVE DispatchEvent(_, _, _, _, _)
DispatchEvent(which, callbacks, ls, i, event) ==
    IF i > Len(ls) THEN <<>>
    ELSE IF ls[i] = PageListener THEN DispatchEvent(which, callbacks, ls, i + 1, event)
    ELSE LET result == messageHandler(which, callbacks[ls[i]], event)
         IN  <<[sub |-> ls[i], invoked |-> result.invoked,
                warned |-> result.warned, threw |-> result.threw]>>
             \o DispatchEvent(which, callbacks, ls, i + 1, event)

(***************************************************************************)
(* Inputs                                                                  *)
(***************************************************************************)
MaxLines == 3
MaxPatchLines == 2
MaxLoads == 2
MaxHexLen == 4

HeaderLine == <<Header>>
KeyLineIV1 == <<KeyTag, ":METHOD=AES-128", ",", IVAttr, "0x1">>
KeyLineIV2 ==
    <<KeyTag, ":METHOD=AES-128", ",", IVAttr, "0x2", ",", "KEYFORMAT=identity", "\r">>
KeyLineNoIV == <<KeyTag, ":METHOD=NONE">>
KeyLineEmptyIV == <<" ", KeyTag, ":METHOD=AES-128", ",", IVAttr, ",", "KEYFORMAT=identity">>
CommentLine == <<"#", "EXTINF:10">>
IndentedComment == <<" ", "#", "EXT-X-ENDLIST">>
BlankLine == <<>>
SpaceLine == <<" ">>
SegmentLine == <<"segment1.ts">>
SegmentLineQuery == <<"segment2.ts", "?", "a=1">>
SegmentLineCR == <<"segment3.ts", "\r">>
SegmentLineTwoQueries == <<"segment4.ts", "?", "next=", "/", "b", "?", "c=1">>

HeaderLineCR == <<Header, "\r">>
CommentLineCR == <<"#", "EXT-X-VERSION:3", "\r">>

\* Lines of a playlist with headers, comments and blank lines of every shape.
VerbatimLines ==
    {HeaderLine, HeaderLineCR, CommentLine, CommentLineCR, IndentedComment, BlankLine,
     SpaceLine, SegmentLine, KeyLineIV1}

KeyLines == {KeyLineIV1, KeyLineIV2, KeyLineNoIV, KeyLineEmptyIV}

ManifestLines ==
    KeyLines \cup {HeaderLine, CommentLine, IndentedComment, BlankLine, SpaceLine,
                   SegmentLine, SegmentLineQuery, SegmentLineCR}

FragmentLines == ManifestLines \cup {SegmentLineTwoQueries}

NoKeyLines == KeyLines \cup {HeaderLine, SegmentLine}

\* The body of the CDN's answer to a URL it has no object for.
NotFoundBody == <<"Not Found">>

\* The manifests the CDN serves to a page that makes several calls.
MaxCalls == 2
CallTexts ==
    {Join(<<HeaderLine, KeyLineIV1, SegmentLine>>, NL),
     Join(<<KeyLineIV2, KeyLineIV1>>, NL),
     Join(<<KeyLineIV1, KeyLineNoIV>>, NL),
     Join(<<CommentLine, SegmentLine>>, NL)}

\* The texts of 1..n lines over a set of lines.
Texts(lines, n) ==
    {Join(ls, NL) : ls \in UNION {[1..k -> lines] : k \in 1..n}}

LoaderTexts ==
    {Join(<<HeaderLine, KeyLineIV1, SegmentLine>>, NL),
     Join(<<KeyLineEmptyIV, SegmentLineQuery>>, NL),
     Join(<<CommentLine, SegmentLineCR>>, NL)}

Origin == <<"https://cdn.example.com">>
SignedParams == <<"?", "token=test">>
HexKey == <<"1", "2", "a", "b">>

\* The hex digits the keys are drawn from, and the keys of up to n digits.
KeyDigits == {"0", "9", "a", "F"}
HexStrings(n) == UNION {[1..k -> KeyDigits] : k \in 0..n}

Pathnames ==
    {<<"/", "video", "/", "playlist.m3u8">>, <<"/", "playlist.m3u8">>, <<"playlist.m3u8">>}

Options(pathname, key) ==
    [origin |-> Origin, pathname |-> pathname, key |-> key, signed |-> SignedParams]

CallbackObjects == {"cb1", "cb2"}
ContextTypes == {"manifest", "level", "audioTrack"}

NoResponse == [kind |-> "none", data |-> <<>>]
Responses(text) == {[kind |-> "string", data |-> text], [kind |-> "binary", data |-> <<>>]}

\* The subscriptions of a page, numbered in the order of the calls.
Subscriptions == {1, 2}
MaxRegs == 2

OwnOrigin == <<"https://", "acme.fermion.app">>
OtherOrigin == <<"https://", "malicious-site.com">>
LookalikeOrigin == <<"https://", "acme.fermion.app", ".evil.com">>

\* Payloads that match a shape of the schema, and payloads that match none.
ValidData ==
    {ObjectData("video:play", Num(42), Absent),
     ObjectData("video:pause", Num(7), Num(3)),
     ObjectData("video:ended", Absent, Absent),
     ObjectData("video:time-updated", Absent, Num(3)),
     ObjectData("video:livestream-ended", Absent, Absent),
     ObjectData("webrtc:livestream-ended", Absent, Absent)}
InvalidData ==
    {ObjectData("video:play", Str, Absent),
     ObjectData("video:play", Absent, Num(3)),
     ObjectData("video:pause", NaNValue, Absent),
     ObjectData("video:seeked", Num(42), Num(3)),
     NonObjectData}
MessageData == ValidData \cup InvalidData

\* The messages that arrive: any payload from the site's own origin and from
\* a foreign origin, and a valid one from an origin that only contains the
\* hostname.
Messages ==
    {[origin |-> o, data |-> d] : o \in {OwnOrigin, OtherOrigin}, d \in MessageData}
        \cup {[origin |-> LookalikeOrigin, data |-> ObjectData("video:play", Num(42), Absent)]}

NoEvent == [origin |-> <<>>, data |-> NonObjectData]
NoDelivery == [event |-> NoEvent, handled |-> <<>>]
NoDispose == [sub |-> 0, again |-> FALSE, before |-> <<>>, after |-> <<>>]
NoCallbacks == [slot \in AllSlots |-> None]

(***************************************************************************)
(* Initial states                                                          *)
(***************************************************************************)
Pending == [kind |-> "pending", message |-> "", blob |-> 0]

InitPage(f, o, text, ok, budget) ==
    /\ facade = f
    /\ opts = o
    /\ cdn = text
    /\ responseOk = ok
    /\ playbackCalls = <<>>
    /\ keyInsertedLeft = FALSE
    /\ loadBudget = budget
    /\ pc = "idle"
    /\ fetched = <<>>
    /\ m3u8Content = <<>>
    /\ outcome = Pending
    /\ blobs = <<>>
    /\ hls = <<>>
    /\ cbWrappers = [c \in CallbackObjects |-> <<>>]
    /\ inflight = [c \in CallbackObjects |-> 0]
    /\ lastSuccess = [cb |-> None, delivered |-> NoResponse, steps |-> <<>>, engine |-> <<>>]
    /\ keyArrays = [offline |-> <<>>, config |-> <<>>]
    /\ listeners = <<PageListener>>
    /\ subs = 0
    /\ eventCallbacks = [s \in Subscriptions |-> NoCallbacks]
    /\ regBudget = MaxRegs
    /\ registered = [s \in Subscriptions |-> [slot \in AllSlots |-> <<>>]]
    /\ disposed = {}
    /\ missingMethod = None
    /\ delivery = NoDelivery
    /\ lastDispose = NoDispose

\* A page for which the CDN answers the manifest URL with status 200.
InitWith(f, o, text, budget) == InitPage(f, o, text, TRUE, budget)

\* A page with either facade and the manifest the CDN serves, or the body of
\* the error page it answers with (HTTP status 404) when it has no manifest.
Init ==
    \E f \in {"recorded", "live"}, p \in Pathnames :
        \E k \in (IF f = "live" THEN {HexKey, Null} ELSE {HexKey}) :
            \/ \E text \in Texts(ManifestLines, MaxLines) : InitWith(f, Options(p, k), text, 0)
            \/ InitPage(f, Options(p, k), NotFoundBody, FALSE, 0)

\* A page with the live facade whose HLS engine loads one playlist.
InitStream ==
    \E k \in {HexKey, Null}, text \in Texts(FragmentLines, MaxPatchLines) :
        InitWith("live", Options(<<"/", "live", "/", "master.m3u8">>, k), text, 1)

\* A page with the live facade whose HLS engine loads several playlists.
InitLoader ==
    \E k \in {HexKey, Null}, text \in LoaderTexts :
        InitWith("live", Options(<<"/", "live", "/", "master.m3u8">>, k), text, MaxLoads)

\* A page with the live facade and no decryption key.
InitNoKey ==
    \E text \in Texts(NoKeyLines, MaxLines) :
        InitWith("live", Options(<<"/", "live", "/", "master.m3u8">>, Null), text, 1)

\* A page with either facade and a decryption key of any length.
InitKey ==
    \E f \in {"recorded", "live"}, k \in HexStrings(MaxHexLen) \cup {Null} :
        /\ (k = Null => f = "live")
        /\ InitWith(f, Options(<<"/", "video", "/", "playlist.m3u8">>, k),
                    Join(<<HeaderLine, KeyLineIV1, SegmentLine>>, NL), 0)

(***************************************************************************)
(* getM3U8PlaybackUrl                                                      *)
(***************************************************************************)
offlineVars == <<pc, fetched, m3u8Content, outcome, blobs>>
loaderVars == <<hls, cbWrappers, inflight, lastSuccess, loadBudget>>
envVars == <<facade, opts, cdn, responseOk>>
callVars == <<playbackCalls, keyInsertedLeft>>
bridgeVars ==
    <<listeners, subs, eventCallbacks, regBudget, registered, disposed, missingMethod,
      delivery, lastDispose>>

\* The call up to the await: the manifest URL is built and handed to fetch.
GetM3U8PlaybackUrl ==
    /\ pc = "idle"
    /\ pc' = "fetching"
    /\ fetched' = Append(fetched, ManifestUrl(opts))
    /\ UNCHANGED <<m3u8Content, outcome, blobs, keyArrays, loaderVars, envVars, callVars, bridgeVars>>

\* The rest of the call once fetch(...).then(t => t.text()) has resolved.
\* fetch resolves for every HTTP status and the call never reads Response.ok.
FetchResolved ==
    /\ pc = "fetching"
    /\ m3u8Content' = <<cdn>>
    /\ keyArrays' = [keyArrays EXCEPT !.offline = DerivedKeyArray(facade, opts.key)]
    /\ LET finalM3U8 == processM3U8(facade, cdn, M3U8Options(facade, opts))
       IN  IF finalM3U8.threw
           THEN /\ pc' = "rejected"
                /\ outcome' = [kind |-> "error", message |-> IVError, blob |-> 0]
                /\ blobs' = blobs
           ELSE /\ pc' = "resolved"
                /\ blobs' = Append(blobs, finalM3U8.text)
                /\ outcome' = [kind |-> "blob", message |-> "", blob |-> Len(blobs) + 1]
    /\ UNCHANGED <<fetched, loaderVars, envVars, callVars, bridgeVars>>

\* The fetch (or reading its body) fails: the await throws.
FetchFailed ==
    /\ pc = "fetching"
    /\ pc' = "rejected"
    /\ outcome' = [kind |-> "error", message |-> "fetch failed", blob |-> 0]
    /\ UNCHANGED <<fetched, m3u8Content, blobs, keyArrays, loaderVars, envVars, callVars, bridgeVars>>

\* Several getM3U8PlaybackUrl calls on one facade.  A call runs up to its
\* await; the calls that are suspended there resume in any order, each with
\* the text the CDN served to it, and run to their end without interruption.
StartCall(text) ==
    /\ Len(playbackCalls) < MaxCalls
    /\ playbackCalls' = Append(playbackCalls,
                       [pc |-> "fetching", url |-> ManifestUrl(opts), served |-> text,
                        overlapped |-> \E c \in 1..Len(playbackCalls) :
                                           playbackCalls[c].pc = "fetching",
                        message |-> "", blob |-> <<>>])
    /\ UNCHANGED <<keyInsertedLeft, offlineVars, loaderVars, keyArrays, envVars, bridgeVars>>

CallResolved(c) ==
    /\ c \in 1..Len(playbackCalls)
    /\ playbackCalls[c].pc = "fetching"
    /\ LET options == M3U8Options(facade, opts)
           finalM3U8 ==
               processM3U8After(keyInsertedLeft, facade, playbackCalls[c].served, options)
       IN  /\ playbackCalls' = [playbackCalls EXCEPT ![c] =
                            IF finalM3U8.threw
                            THEN [@ EXCEPT !.pc = "rejected", !.message = IVError]
                            ELSE [@ EXCEPT !.pc = "resolved", !.blob = finalM3U8.text]]
           /\ keyInsertedLeft' =
                  KeyInsertedAtExit(facade, Split(playbackCalls[c].served, NL), 1,
                                    KeyInsertedAtEntry(keyInsertedLeft), options)
    /\ UNCHANGED <<offlineVars, loaderVars, keyArrays, envVars, bridgeVars>>

CallFailed(c) ==
    /\ c \in 1..Len(playbackCalls)
    /\ playbackCalls[c].pc = "fetching"
    /\ playbackCalls' = [playbackCalls EXCEPT ![c] =
                             [@ EXCEPT !.pc = "rejected", !.message = "fetch failed"]]
    /\ UNCHANGED <<keyInsertedLeft, offlineVars, loaderVars, keyArrays, envVars, bridgeVars>>

NextCalls ==
    \/ \E text \in CallTexts : StartCall(text)
    \/ \E c \in 1..MaxCalls : CallResolved(c) \/ CallFailed(c)

\* A page with either facade that has made no call yet.
InitCalls ==
    \E f \in {"recorded", "live"}, p \in Pathnames :
        \E k \in (IF f = "live" THEN {HexKey, Null} ELSE {HexKey}) :
            InitWith(f, Options(p, k), Join(<<HeaderLine, KeyLineIV1, SegmentLine>>, NL), 0)

SpecCalls == InitCalls /\ [][NextCalls]_vars

(***************************************************************************)
(* getHlsPlaybackConfig and the loader                                     *)
(***************************************************************************)
\* The two revisions of createCustomLoader in the sources: a plain method that
\* returns the class, and an `async` method that first awaits import('hls.js').
Revisions == {"sync", "async"}

\* What a call of createCustomLoader returns to getHlsPlaybackConfig: the
\* PlaylistLoader class, or (async method) a promise that is still pending.
createCustomLoader(revision) ==
    IF revision = "async" THEN "pending promise" ELSE "class"

\* getHlsPlaybackConfig: the source URL, and as PlaylistLoader whatever
\* createCustomLoader returned; signedUrlParam and keyUri are what the class
\* closes over.  The call is not awaited and the method is not async.
GetHlsPlaybackConfig ==
    /\ facade = "live"
    /\ hls = <<>>
    /\ \E revision \in Revisions :
           hls' = <<[sourceUrl |-> ManifestUrl(opts),
                    PlaylistLoader |-> createCustomLoader(revision),
                    signedUrlParam |-> opts.signed,
                    keyUri |-> LiveKeyUri(opts.key)]>>
    /\ keyArrays' = [keyArrays EXCEPT !.config = DerivedKeyArray("live", opts.key)]
    /\ UNCHANGED <<cbWrappers, inflight, lastSuccess, loadBudget, offlineVars, envVars, callVars, bridgeVars>>

\* import('hls.js') resolves: the promise the async createCustomLoader returned
\* is fulfilled with the class.
ImportResolved ==
    /\ hls # <<>>
    /\ hls[1].PlaylistLoader = "pending promise"
    /\ hls' = <<[hls[1] EXCEPT !.PlaylistLoader = "fulfilled promise"]>>
    /\ UNCHANGED <<cbWrappers, inflight, lastSuccess, loadBudget, keyArrays, offlineVars, envVars, callVars, bridgeVars>>

\* The HLS engine can construct a loader: it was given the class, which the
\* page has either as PlaylistLoader or as the value of the fulfilled promise.
LoaderClassAvailable ==
    hls # <<>> /\ hls[1].PlaylistLoader \in {"class", "fulfilled promise"}

\* PlaylistLoader.load(context, config, callbacks): callbacks.onSuccess is
\* replaced by the wrapper and the default loader starts the request.
Load(cb, type) ==
    /\ LoaderClassAvailable
    /\ loadBudget > 0
    /\ loadBudget' = loadBudget - 1
    /\ cbWrappers' = [cbWrappers EXCEPT ![cb] = Append(@, type)]
    /\ inflight' = [inflight EXCEPT ![cb] = @ + 1]
    /\ UNCHANGED <<hls, lastSuccess, keyArrays, offlineVars, envVars, callVars, bridgeVars>>

\* The default loader finishes a request and calls callbacks.onSuccess.
LoaderSuccess(cb, response) ==
    /\ inflight[cb] > 0
    /\ inflight' = [inflight EXCEPT ![cb] = @ - 1]
    /\ LET run == RunOnSuccess(cbWrappers[cb], Len(cbWrappers[cb]), response, hls[1])
       IN  lastSuccess' = [cb |-> cb, delivered |-> response,
                           steps |-> run.steps, engine |-> run.engine]
    /\ UNCHANGED <<hls, cbWrappers, loadBudget, keyArrays, offlineVars, envVars, callVars, bridgeVars>>

NextOffline == GetM3U8PlaybackUrl \/ FetchResolved \/ FetchFailed

NextLoader ==
    \/ GetHlsPlaybackConfig
    \/ ImportResolved
    \/ \E cb \in CallbackObjects, type \in ContextTypes : Load(cb, type)
    \/ \E cb \in CallbackObjects, response \in Responses(cdn) : LoaderSuccess(cb, response)

Spec == Init /\ [][NextOffline]_vars
SpecStream == InitStream /\ [][NextLoader]_vars
SpecLoader == InitLoader /\ [][NextLoader]_vars
SpecNoKey == InitNoKey /\ [][NextOffline \/ NextLoader]_vars

\* A page with either facade that rewrites one playlist in each mode it has.
InitVerbatim ==
    \E f \in {"recorded", "live"}, text \in Texts(VerbatimLines, MaxPatchLines) :
        \E k \in (IF f = "live" THEN {HexKey, Null} ELSE {HexKey}) :
            InitWith(f, Options(<<"/", "video", "/", "playlist.m3u8">>, k), text,
                     IF f = "live" THEN 1 ELSE 0)

SpecVerbatim == InitVerbatim /\ [][NextOffline \/ NextLoader]_vars

\* A page with either facade and a decryption key, and a short manifest.
InitFacades ==
    \E f \in {"recorded", "live"}, p \in Pathnames,
       text \in Texts(ManifestLines, MaxPatchLines) :
        InitWith(f, Options(p, HexKey), text, 0)

SpecFacades == InitFacades /\ [][NextOffline]_vars

\* The playback-source methods alone, for keys of every length.
NextKey == NextOffline \/ GetHlsPlaybackConfig \/ ImportResolved
SpecKey == InitKey /\ [][NextKey]_vars

(***************************************************************************)
(* setupEventListenersOnVideo and the window's message channel             *)
(***************************************************************************)
\* setupEventListenersOnVideo(): a new eventCallbacks object and a new
\* messageHandler, which is added to the window's listeners.
SetupEventListenersOnVideo ==
    /\ subs + 1 \in Subscriptions
    /\ subs' = subs + 1
    /\ listeners' = AddListener(listeners, subs + 1)
    /\ eventCallbacks' = [eventCallbacks EXCEPT ![subs + 1] = NoCallbacks]
    /\ delivery' = NoDelivery
    /\ lastDispose' = NoDispose
    /\ missingMethod' = None
    /\ UNCHANGED <<regBudget, registered, disposed>>
    /\ UNCHANGED <<offlineVars, loaderVars, keyArrays, envVars, callVars>>

\* The page calls onVideoPlay / onVideoPaused / onVideoEnded / onTimeUpdated /
\* onLivestreamEnded on the object of subscription s, with callback cb.  The
\* object of the recorded facade has the first three only: calling another
\* one there is a call of undefined, a TypeError in the page.
Register(s, slot, cb) ==
    /\ s \in 1..subs
    /\ regBudget > 0
    /\ IF slot \in Slots(facade)
       THEN /\ regBudget' = regBudget - 1
            /\ eventCallbacks' = [eventCallbacks EXCEPT ![s] = SetCallback(@, slot, cb)]
            /\ registered' = [registered EXCEPT ![s][slot] = Append(@, cb)]
            /\ missingMethod' = None
       ELSE /\ missingMethod' = slot
            /\ UNCHANGED <<regBudget, eventCallbacks, registered>>
    /\ delivery' = NoDelivery
    /\ lastDispose' = NoDispose
    /\ UNCHANGED <<listeners, subs, disposed>>
    /\ UNCHANGED <<offlineVars, loaderVars, keyArrays, envVars, callVars>>

\* dispose() of subscription s.
Dispose(s) ==
    /\ s \in 1..subs
    /\ listeners' = RemoveListener(listeners, s)
    /\ disposed' = disposed \cup {s}
    /\ lastDispose' = [sub |-> s, again |-> s \in disposed,
                       before |-> listeners, after |-> listeners']
    /\ delivery' = NoDelivery
    /\ missingMethod' = None
    /\ UNCHANGED <<subs, eventCallbacks, regBudget, registered>>
    /\ UNCHANGED <<offlineVars, loaderVars, keyArrays, envVars, callVars>>

\* A message event arrives on the window and goes to every listener.
Message(origin, data) ==
    /\ LET event == [origin |-> origin, data |-> data]
       IN  delivery' = [event |-> event,
                        handled |-> DispatchEvent(facade, eventCallbacks, listeners, 1, event)]
    /\ lastDispose' = NoDispose
    /\ missingMethod' = None
    /\ UNCHANGED <<listeners, subs, eventCallbacks, regBudget, registered, disposed>>
    /\ UNCHANGED <<offlineVars, loaderVars, keyArrays, envVars, callVars>>

NextBridge ==
    \/ SetupEventListenersOnVideo
    \/ \E s \in Subscriptions, slot \in AllSlots, cb \in Callbacks : Register(s, slot, cb)
    \/ \E s \in Subscriptions : Dispose(s)
    \/ \E m \in Messages : Message(m.origin, m.data)

\* A page with either facade that has not subscribed yet.
InitBridge ==
    \E f \in {"recorded", "live"} :
        InitWith(f, Options(<<"/", "video", "/", "playlist.m3u8">>, HexKey),
                 Join(<<HeaderLine, SegmentLine>>, NL), 0)

SpecBridge == InitBridge /\ [][NextBridge]_vars

(***************************************************************************)
(* Properties                                                              *)
(***************************************************************************)
\* The lines of the manifest the CDN serves, and of the rewritten manifest.
InLines == Split(cdn, NL)
OutLines == Split(blobs[1], NL)

Resolved == pc = "resolved" /\ Len(blobs) = 1

\* A key is given to the facade: the recorded facade always has one, the live
\* facade has one unless it is null (or empty).
KeySupplied == facade = "recorded" \/ (opts.key # Null /\ opts.key # <<>>)

\* The key URI a facade with a key hands to the rewrite.
SuppliedKeyUri == <<"data:text/plain;base64", ",">> \o Btoa(KeyBytes(opts.key))

\* A key-directive line: its text starts with #EXT-X-KEY.
IsKeyLine(l) == LET t == Trim(l) IN t # <<>> /\ t[1] = KeyTag

\* The line has an IV attribute with a value: IV= followed by a character
\* other than ','.
HasIV(l) == \E p \in 1..(Len(l) - 1) : l[p] = IVAttr /\ l[p + 1] # ","

\* The value of the first IV attribute of a line that has one: the characters
\* after IV= up to the next ',' or the end of the line.
IVOf(l) ==
    LET p == CHOOSE p \in 1..(Len(l) - 1) :
                 /\ l[p] = IVAttr /\ l[p + 1] # ","
                 /\ \A q \in 1..(p - 1) : ~(l[q] = IVAttr /\ l[q + 1] # ",")
        e == CHOOSE e \in (p + 1)..Len(l) :
                 /\ \A k \in (p + 1)..e : l[k] # ","
                 /\ (e = Len(l) \/ l[e + 1] = ",")
    IN  SubSeq(l, p + 1, e)

KeyLineIndexes == {i \in 1..Len(InLines) : IsKeyLine(InLines[i])}

IsFirstKeyLine(i) == i \in KeyLineIndexes /\ \A j \in KeyLineIndexes : i <= j

\* The number of '?' in a line.
QueryMarks(l) == Cardinality({i \in 1..Len(l) : l[i] = "?"})

\* A line that refers to a segment or a sub-playlist: not blank, no '#' first.
IsReference(l) == l # <<>> /\ l[1] \notin HashAtoms
IsTrimmedReference(l) == IsReference(Trim(l))

\* The pathname without its final path segment: what precedes its last '/'.
DirectoryOf(pathname) ==
    LET slashes == {i \in 1..Len(pathname) : pathname[i] = "/"}
    IN  IF slashes = {} THEN <<>>
        ELSE SubSeq(pathname, 1, (CHOOSE i \in slashes : \A j \in slashes : j <= i) - 1)

\* C1 as stated: with a key configured and an IV on every key line, the first
\* key line is replaced by the patched key line with its own IV and every
\* later key line is emitted exactly as it was in the input.
C1_LaterKeyLinesAsInInput ==
    (Resolved /\ KeySupplied /\ \A i \in KeyLineIndexes : HasIV(Trim(InLines[i])))
    => /\ Len(OutLines) = Len(InLines)
       /\ \A i \in KeyLineIndexes :
              OutLines[i] = IF IsFirstKeyLine(i)
                            THEN PatchedKeyLine(SuppliedKeyUri, IVOf(Trim(InLines[i])))
                            ELSE InLines[i]

\* C1 amended: with a key configured and an IV on every key line, only the
\* first key line is replaced by the patched key line with its own IV; every
\* later key line is emitted as it was in the input except that white space
\* around it is trimmed; so exactly one key line is patched.
C1_InsertOnce ==
    (Resolved /\ KeySupplied /\ \A i \in KeyLineIndexes : HasIV(Trim(InLines[i])))
    => /\ Len(OutLines) = Len(InLines)
       /\ \A i \in KeyLineIndexes :
              OutLines[i] = IF IsFirstKeyLine(i)
                            THEN PatchedKeyLine(SuppliedKeyUri, IVOf(Trim(InLines[i])))
                            ELSE Trim(InLines[i])

\* C1 witness: a rewrite with a key has patched the first key line and passed
\* a later key line on.
C1_Witness ==
    /\ Resolved /\ KeySupplied
    /\ \E i, j \in KeyLineIndexes :
           /\ i < j
           /\ OutLines[i] # Trim(InLines[i])
           /\ OutLines[j] = Trim(InLines[j])
           /\ OutLines[j] # InLines[j]

C3_MissingIVRejects ==
    (/\ m3u8Content # <<>>
     /\ KeySupplied
     /\ \E i \in KeyLineIndexes : ~HasIV(Trim(InLines[i])))
    => /\ pc = "rejected"
       /\ outcome = [kind |-> "error", message |-> IVError, blob |-> 0]
       /\ blobs = <<>>

\* C3 witness: the call rejected on a key line without an IV that follows a
\* key line with an IV.
C3_Witness ==
    /\ pc = "rejected" /\ outcome.message = IVError /\ blobs = <<>>
    /\ \E i, j \in KeyLineIndexes :
           i < j /\ HasIV(Trim(InLines[i])) /\ ~HasIV(Trim(InLines[j]))

\* C4 as stated: live rewrite without a key: every key line of the input is
\* in the output at its position, unchanged.
C4_NoKeyKeyLinesPassThrough ==
    (Resolved /\ facade = "live" /\ opts.key = Null)
    => /\ Len(OutLines) = Len(InLines)
       /\ \A i \in KeyLineIndexes : OutLines[i] = InLines[i]

\* C6 as stated: every input line that is not empty and does not start with
\* '#' is replaced by segmentBaseUrl + '/' + line + signedQueryString, the
\* base being the origin joined to the pathname without its last segment.
C6_ReferencesRewritten ==
    Resolved =>
        SelectSeq(OutLines, IsReference)
            = [i \in 1..Len(SelectSeq(InLines, IsReference)) |->
                   opts.origin \o DirectoryOf(opts.pathname) \o <<"/">>
                       \o SelectSeq(InLines, IsReference)[i] \o opts.signed]

\* C6 amended: every input line that, trimmed of surrounding white space, is
\* not empty and does not start with '#' is replaced by segmentBaseUrl + '/'
\* + trimmed line + signedQueryString, the base being the origin joined to the
\* pathname without its last segment ('https://cdn.example.com' and
\* '/video/playlist.m3u8' give 'https://cdn.example.com/video').
C6_TrimmedReferencesRewritten ==
    Resolved =>
        /\ SelectSeq(OutLines, IsReference)
               = [i \in 1..Len(SelectSeq(InLines, IsTrimmedReference)) |->
                      opts.origin \o DirectoryOf(opts.pathname) \o <<"/">>
                          \o Trim(SelectSeq(InLines, IsTrimmedReference)[i]) \o opts.signed]
        /\ (opts.pathname = <<"/", "video", "/", "playlist.m3u8">> /\ KeySupplied)
               => \A i \in 1..Len(InLines) :
                      IsTrimmedReference(InLines[i])
                      => OutLines[i] = <<"https://cdn.example.com", "/", "video", "/">>
                                           \o Trim(InLines[i]) \o opts.signed

\* C6 witness: a segment line with a carriage return was rewritten under
\* /video/playlist.m3u8.
C6_Witness ==
    /\ Resolved
    /\ opts.pathname = <<"/", "video", "/", "playlist.m3u8">>
    /\ \E i \in 1..Len(InLines) : InLines[i] = SegmentLineCR
    /\ \E i \in 1..Len(OutLines) :
           OutLines[i] = <<"https://cdn.example.com", "/", "video", "/", "segment3.ts",
                           "?", "token=test">>

\* C7 as stated: every output line that is neither blank nor a '#' line is an
\* absolute URL under the CDN origin that ends with the signed query string
\* and has a single '?'.
C7_ReferencesWellFormed ==
    Resolved =>
        \A i \in 1..Len(OutLines) :
            IsReference(OutLines[i])
            => /\ SubSeq(OutLines[i], 1, Len(opts.origin)) = opts.origin
               /\ Len(OutLines[i]) >= Len(opts.signed)
               /\ SubSeq(OutLines[i], Len(OutLines[i]) - Len(opts.signed) + 1,
                         Len(OutLines[i])) = opts.signed
               /\ QueryMarks(OutLines[i]) = 1

\* A substituted key line: the AES-128 line the rewrite builds.
IsSubstitutedKeyLine(l) ==
    Len(l) >= 4 /\ SubSeq(l, 1, 4) = <<KeyTag, ":METHOD=AES-128", ",", "URI=\"">>

\* The configuration the PlaylistLoader class closes over.
Cfg == hls[1]

\* The wrapper invocations of the last success report that had a string
\* payload in a load of a manifest or a level.
RewritingSteps ==
    {k \in 1..Len(lastSuccess.steps) :
        /\ lastSuccess.steps[k].type \in PatchedTypes
        /\ lastSuccess.steps[k].input.kind = "string"}

StepIn(k) == Split(lastSuccess.steps[k].input.data, NL)
StepOut(k) == Split(lastSuccess.steps[k].calls[1].data, NL)

\* C5: live facade without a key: once the manifest is fetched the offline
\* call resolves with a blob, every success report of the default loader
\* reaches the engine's callback, and neither output has a substituted key
\* line, whatever key lines the manifest has.
C5_NoKeyNeverFails ==
    (facade = "live" /\ opts.key = Null)
    => /\ m3u8Content # <<>>
              => /\ Resolved
                 /\ outcome.kind = "blob"
                 /\ \A i \in 1..Len(OutLines) : ~IsSubstitutedKeyLine(OutLines[i])
       /\ lastSuccess.cb # None
              => /\ Len(lastSuccess.engine) = 1
                 /\ \A k \in 1..Len(lastSuccess.steps) : Len(lastSuccess.steps[k].calls) = 1
                 /\ lastSuccess.engine[1].kind = lastSuccess.delivered.kind
                 /\ \A i \in 1..Len(Split(lastSuccess.engine[1].data, NL)) :
                        ~IsSubstitutedKeyLine(Split(lastSuccess.engine[1].data, NL)[i])

\* C5 witness: without a key, a manifest with a key line that has an IV and
\* one that has none went through the offline rewrite and the streaming patch.
C5_Witness ==
    /\ facade = "live" /\ opts.key = Null
    /\ Resolved
    /\ \E i, j \in KeyLineIndexes : HasIV(Trim(InLines[i])) /\ ~HasIV(Trim(InLines[j]))
    /\ lastSuccess.cb # None
    /\ RewritingSteps # {}

\* C8 as stated: streaming patch with a signed query string '?k=v': a segment
\* line without '?' becomes line + signedQueryString, one with '?' becomes
\* line + '&' + signedQueryString without its '?', and no result has two '?'.
C8_QueryAppended ==
    \A k \in RewritingSteps :
        (Cfg.signedUrlParam # <<>> /\ Cfg.signedUrlParam[1] = "?"
             /\ QueryMarks(Cfg.signedUrlParam) = 1)
        => /\ Len(StepOut(k)) = Len(StepIn(k))
           /\ \A i \in 1..Len(StepIn(k)) :
                  IsTrimmedReference(StepIn(k)[i])
                  => /\ StepOut(k)[i] =
                            IF QueryMarks(StepIn(k)[i]) = 0
                            THEN StepIn(k)[i] \o Cfg.signedUrlParam
                            ELSE StepIn(k)[i] \o <<"&">> \o Tail(Cfg.signedUrlParam)
                     /\ QueryMarks(StepOut(k)[i]) < 2

\* C8 amended: streaming patch with a signed query string '?k=v', t being the
\* segment line trimmed of surrounding white space: t without '?' becomes
\* t + signedQueryString, t with '?' becomes t + '&' + signedQueryString
\* without its '?'; the patch adds no second '?': the result has one '?' when
\* t had none and as many as t had otherwise.
C8_QueryAppendedToTrimmed ==
    \A k \in RewritingSteps :
        (Cfg.signedUrlParam # <<>> /\ Cfg.signedUrlParam[1] = "?"
             /\ QueryMarks(Cfg.signedUrlParam) = 1)
        => /\ Len(StepOut(k)) = Len(StepIn(k))
           /\ \A i \in 1..Len(StepIn(k)) :
                  IsTrimmedReference(StepIn(k)[i])
                  => LET t == Trim(StepIn(k)[i])
                     IN  /\ StepOut(k)[i] =
                                IF QueryMarks(t) = 0
                                THEN t \o Cfg.signedUrlParam
                                ELSE t \o <<"&">> \o Tail(Cfg.signedUrlParam)
                         /\ QueryMarks(StepOut(k)[i]) =
                                IF QueryMarks(t) = 0 THEN 1 ELSE QueryMarks(t)

\* C8 witness: a fragment with a segment line that has a query string and one
\* that has none was patched.
C8_Witness ==
    \E k \in RewritingSteps :
        \E i, j \in 1..Len(StepIn(k)) :
            /\ StepIn(k)[i] = SegmentLineQuery
            /\ StepOut(k)[i] = <<"segment2.ts", "?", "a=1", "&", "token=test">>
            /\ StepIn(k)[j] = SegmentLineCR
            /\ StepOut(k)[j] = <<"segment3.ts", "?", "token=test">>

\* C9: each success report of the default loader runs the wrapper(s) load()
\* installed, outermost first; every wrapper calls the success callback it
\* replaced exactly once, with the patched text if and only if its load's
\* context type is 'manifest' or 'level' and the payload is a string, and
\* with the payload as it received it otherwise.
C9_WrapperCallsOriginalOnce ==
    lastSuccess.cb # None
    => /\ Len(lastSuccess.steps) >= 1
       /\ Len(lastSuccess.steps) <= Len(cbWrappers[lastSuccess.cb])
       /\ lastSuccess.steps[1].input = lastSuccess.delivered
       /\ \A k \in 1..Len(lastSuccess.steps) :
              LET step == lastSuccess.steps[k]
              IN  /\ Len(step.calls) = 1
                  /\ step.calls[1] =
                         IF step.type \in {"manifest", "level"} /\ step.input.kind = "string"
                         THEN [kind |-> "string", data |-> patchM3U8(step.input.data, Cfg)]
                         ELSE step.input
                  /\ IF k < Len(lastSuccess.steps)
                     THEN lastSuccess.steps[k + 1].input = step.calls[1]
                     ELSE lastSuccess.engine = <<step.calls[1]>>

\* C9 witness: a level load handed on a rewritten text, and a load of another
\* type handed on the text as delivered.
C9_Witness ==
    /\ lastSuccess.cb # None
    /\ Len(lastSuccess.steps) = 1
    /\ lastSuccess.steps[1].type = "level"
    /\ lastSuccess.delivered.kind = "string"
    /\ lastSuccess.engine # <<lastSuccess.delivered>>
    /\ cbWrappers[IF lastSuccess.cb = "cb1" THEN "cb2" ELSE "cb1"] = <<"audioTrack">>

\* C10: streaming patch of key lines: with a key URI a key line that has an
\* IV becomes the AES-128 line with that URI and its own IV, a key line
\* without an IV is passed through unchanged and the patch completes; without
\* a key URI every key line is passed through unchanged.
C10_StreamKeyLines ==
    \A k \in RewritingSteps :
        /\ Len(lastSuccess.steps[k].calls) = 1
        /\ Len(StepOut(k)) = Len(StepIn(k))
        /\ \A i \in 1..Len(StepIn(k)) :
               IsKeyLine(StepIn(k)[i])
               => StepOut(k)[i] =
                      IF Cfg.keyUri # Null /\ HasIV(Trim(StepIn(k)[i]))
                      THEN PatchedKeyLine(Cfg.keyUri, IVOf(Trim(StepIn(k)[i])))
                      ELSE StepIn(k)[i]

\* C10 witness: with a key URI, a patch rewrote a key line with an IV and
\* passed on, white space included, a key line without one.
C10_Witness ==
    \E k \in RewritingSteps :
        /\ Cfg.keyUri # Null
        /\ \E i, j \in 1..Len(StepIn(k)) :
               /\ StepIn(k)[i] = KeyLineEmptyIV
               /\ StepOut(k)[i] = KeyLineEmptyIV
               /\ StepIn(k)[j] = KeyLineIV2
               /\ IsSubstitutedKeyLine(StepOut(k)[j])

\* The key lines of the text a wrapper invocation received.
StepKeyLines(k) == {i \in 1..Len(StepIn(k)) : IsKeyLine(StepIn(k)[i])}

\* C11 as stated: streaming patch with a key URI of a fragment whose key
\* lines all carry an IV: only the first key line is replaced by the patched
\* key line, every later key line is passed through as it was.
C11_StreamInsertOnce ==
    \A k \in RewritingSteps :
        (Cfg.keyUri # Null /\ \A i \in StepKeyLines(k) : HasIV(Trim(StepIn(k)[i])))
        => /\ Len(StepOut(k)) = Len(StepIn(k))
           /\ \A i \in StepKeyLines(k) :
                  StepOut(k)[i] =
                      IF \A j \in StepKeyLines(k) : i <= j
                      THEN PatchedKeyLine(Cfg.keyUri, IVOf(Trim(StepIn(k)[i])))
                      ELSE StepIn(k)[i]

\* C12 as stated: once getHlsPlaybackConfig has returned, with a key or with
\* a null key, sourceUrl is origin + masterM3u8Pathname + urlSearchParamString
\* and PlaylistLoader is the loader class itself, ready to be handed to the
\* HLS engine's configuration.
C12_ConfigHasLoaderClass ==
    hls # <<>>
    => /\ hls[1].sourceUrl = opts.origin \o opts.pathname \o opts.signed
       /\ hls[1].PlaylistLoader = "class"

\* The key arrays built so far by the offline path and by getHlsPlaybackConfig.
BuiltKeyArrays == {keyArrays.offline, keyArrays.config} \ {<<>>}

\* The playback-source methods that have got to their key derivation.
OfflineDerived == m3u8Content # <<>>
ConfigDerived == hls # <<>>

\* Byte i of the key a hex string h stands for, most significant nibble first.
ByteOfHex(h, i) == 16 * HexValue(h[2 * i - 1]) + HexValue(h[2 * i])

\* C13 as stated: for every hex string h of even length, each path (recorded
\* facade, live offline path, getHlsPlaybackConfig) derives a key of exactly
\* len(h)/2 bytes, byte i being 16 * value(h[2i]) + value(h[2i+1]) and in
\* 0..255, so all paths derive the same bytes from the same string.
C13_KeyBytesFromHex ==
    (opts.key # Null /\ Len(opts.key) % 2 = 0)
    => LET expected == [i \in 1..(Len(opts.key) \div 2) |-> ByteOfHex(opts.key, i)]
       IN  /\ \A i \in 1..Len(expected) : expected[i] \in 0..255
           /\ OfflineDerived => keyArrays.offline = <<expected>>
           /\ ConfigDerived => keyArrays.config = <<expected>>

\* C13 amended: the same for every non-empty hex string of even length; for
\* the empty string the recorded facade derives a key of zero bytes, and the
\* live facade (offline path and getHlsPlaybackConfig) derives no key at all,
\* as for null.
C13_KeyBytesFromNonEmptyHex ==
    (opts.key # Null /\ Len(opts.key) % 2 = 0)
    => LET expected == [i \in 1..(Len(opts.key) \div 2) |-> ByteOfHex(opts.key, i)]
           derived == IF opts.key = <<>> /\ facade = "live" THEN <<>> ELSE <<expected>>
       IN  /\ \A i \in 1..Len(expected) : expected[i] \in 0..255
           /\ OfflineDerived => keyArrays.offline = derived
           /\ ConfigDerived => keyArrays.config = derived

\* C13 witness: the live facade derived the bytes 0x9a 0xF0 from '9aF0' on
\* both of its paths.
C13_Witness ==
    /\ facade = "live"
    /\ opts.key = <<"9", "a", "F", "0">>
    /\ keyArrays.offline = <<<<154, 240>>>>
    /\ keyArrays.config = <<<<154, 240>>>>

\* C14 as stated: with a key of odd length the playback-source operation
\* fails: getM3U8PlaybackUrl rejects without a blob once it has the manifest,
\* and getHlsPlaybackConfig returns no configuration.
C14_OddLengthKeyFails ==
    (opts.key # Null /\ Len(opts.key) % 2 = 1)
    => /\ OfflineDerived => (pc = "rejected" /\ blobs = <<>>)
       /\ ~ConfigDerived
       /\ BuiltKeyArrays = {}

\* A message event was delivered in the last step.
Delivered == delivery.event # NoEvent

\* The origin of the delivered message contains the configured hostname.
FromAcceptedOrigin ==
    \E i \in 1..Len(delivery.event.origin) : delivery.event.origin[i] = WebsiteHostname[1]

\* The handlers the delivered message reached, and the subscriptions whose
\* listener is registered.
Handled == {delivery.handled[i] : i \in 1..Len(delivery.handled)}
ActiveSubs == {s \in 1..subs : \E i \in 1..Len(listeners) : listeners[i] = s}

\* The callback most recently registered on a slot of a subscription.
LatestCallback(s, slot) ==
    IF registered[s][slot] = <<>> THEN None
    ELSE registered[s][slot][Len(registered[s][slot])]

\* C15: a message whose origin does not contain the configured hostname
\* invokes no callback of any subscription, of either facade, whatever its
\* payload, and no handler warns (or throws).
C15_ForeignOriginIgnored ==
    (Delivered /\ ~FromAcceptedOrigin)
    => \A h \in Handled : h.invoked = <<>> /\ ~h.warned /\ ~h.threw

\* C15 witness: a valid play message from a foreign origin reached the handler
\* of a subscription that has a play callback, which was not invoked.
C15_Witness ==
    /\ Delivered /\ delivery.event.origin = OtherOrigin
    /\ delivery.event.data \in ValidData
    /\ delivery.event.data.type = "video:play"
    /\ \E h \in Handled : eventCallbacks[h.sub]["play"] # None /\ h.invoked = <<>>

\* C16 as stated: a message whose origin is not the site's own origin,
\* https://<websiteHostname>, invokes no callback.
C16_OnlyOwnOriginDispatched ==
    (Delivered /\ delivery.event.origin # <<"https://">> \o WebsiteHostname)
    => \A h \in Handled : h.invoked = <<>>

\* C17: a subscription whose dispose() has been called gets no message any
\* more, whatever callbacks it has, so none of its callbacks runs; and a
\* dispose() call removes the listener of its subscription and no other: the
\* listeners after it are those before it without that one.
C17_NoDispatchAfterDispose ==
    /\ \A h \in Handled : h.sub \notin disposed
    /\ lastDispose.sub # 0
           => /\ \A i \in 1..Len(lastDispose.after) : lastDispose.after[i] # lastDispose.sub
              /\ LET others(x) == x # lastDispose.sub
                 IN  lastDispose.after = SelectSeq(lastDispose.before, others)
              /\ ~lastDispose.again
                     => Len(lastDispose.after) = Len(lastDispose.before) - 1

\* C17 witness: a valid play message from the site's origin was delivered
\* while a disposed subscription had a play callback; it reached only the
\* other subscription.
C17_Witness ==
    /\ Delivered /\ FromAcceptedOrigin
    /\ delivery.event.data = ObjectData("video:play", Num(42), Absent)
    /\ \E s \in disposed : LatestCallback(s, "play") # None
    /\ \E h \in Handled : h.sub \notin disposed /\ h.invoked # <<>>

\* C18: a dispose() call on a subscription that was disposed before changes
\* nothing: the window's listeners are the same after it as before it, the
\* subscription's listener having been removed by the first call.
C18_DisposeIdempotent ==
    (lastDispose.sub # 0 /\ lastDispose.again)
    => /\ lastDispose.after = lastDispose.before
       /\ listeners = lastDispose.before
       /\ \A i \in 1..Len(listeners) : listeners[i] # lastDispose.sub

\* C18 witness: a second dispose() while the page's listener and the other
\* subscription's listener are registered.
C18_Witness ==
    /\ lastDispose.sub # 0 /\ lastDispose.again
    /\ Len(listeners) = 2
    /\ ActiveSubs # {}

\* The slot of the registration method for an event type, None when there is
\* no such method; and the payload field of an event type.
KindSlot(type) ==
    CASE type = "video:play" -> "play"
      [] type = "video:pause" -> "pause"
      [] type = "video:ended" -> "ended"
      [] type = "video:time-updated" -> "timeUpdated"
      [] type = "video:livestream-ended" -> "livestreamEnded"
      [] OTHER -> None
PayloadField(type) ==
    CASE type \in {"video:play", "video:pause"} -> "durationAtInSeconds"
      [] type = "video:time-updated" -> "currentTimeInSeconds"
      [] OTHER -> ""

\* C19: a valid message of kind K from an accepted origin reaches every
\* subscription that is not disposed, and there it invokes exactly one
\* callback, once: the one most recently registered for K, with the payload
\* field of the message; nothing is invoked when none is registered for K.
C19_LatestCallbackOnce ==
    (Delivered /\ FromAcceptedOrigin /\ delivery.event.data \in ValidData)
    => /\ {h.sub : h \in Handled} = (1..subs) \ disposed
       /\ Len(delivery.handled) = Cardinality((1..subs) \ disposed)
       /\ \A h \in Handled :
              LET type == delivery.event.data.type
                  slot == KindSlot(type)
                  latest == IF slot = None THEN None ELSE LatestCallback(h.sub, slot)
              IN  /\ ~h.threw
                  /\ h.invoked =
                         IF latest = None THEN <<>>
                         ELSE <<[slot |-> slot, callback |-> latest,
                                 argument |->
                                     [field |-> PayloadField(type),
                                      value |-> IF PayloadField(type) = "" THEN Absent
                                                ELSE delivery.event.data[PayloadField(type)]]]>>

\* C19 witness: a pause message invoked the second of two different callbacks
\* registered for pause, once, with the duration of the message.
C19_Witness ==
    /\ Delivered /\ FromAcceptedOrigin
    /\ delivery.event.data = ObjectData("video:pause", Num(7), Num(3))
    /\ \E h \in Handled :
           /\ registered[h.sub]["pause"] = <<"throwingCallback", "callback">>
           /\ h.invoked = <<[slot |-> "pause", callback |-> "callback",
                             argument |-> [field |-> "durationAtInSeconds",
                                           value |-> Num(7)]]>>

\* C20: a message from an accepted origin whose payload matches no event
\* shape invokes no callback and does not make a handler throw, and every
\* subscription that is not disposed still has its listener registered.
C20_InvalidPayloadDropped ==
    (Delivered /\ FromAcceptedOrigin /\ delivery.event.data \notin ValidData)
    => /\ \A h \in Handled : h.invoked = <<>> /\ ~h.threw
       /\ ActiveSubs = (1..subs) \ disposed
       /\ {h.sub : h \in Handled} = ActiveSubs

\* C20 witness: a play message with a string as duration reached a
\* subscription that has a play callback; the handler warned and went on.
C20_Witness ==
    /\ Delivered /\ FromAcceptedOrigin
    /\ delivery.event.data = ObjectData("video:play", Str, Absent)
    /\ \E h \in Handled :
           LatestCallback(h.sub, "play") # None /\ h.invoked = <<>> /\ h.warned

\* C21 as stated: on either facade the returned object has onTimeUpdated, so
\* a page that calls it gets no TypeError, and a valid time-updated message
\* from an accepted origin invokes the callback registered with it, with the
\* message's currentTimeInSeconds.
C21_TimeUpdatedOnBothFacades ==
    /\ missingMethod # "timeUpdated"
    /\ (Delivered /\ FromAcceptedOrigin
            /\ delivery.event.data = ObjectData("video:time-updated", Absent, Num(3)))
       => \A h \in Handled :
              LatestCallback(h.sub, "timeUpdated") # None
              => h.invoked = <<[slot |-> "timeUpdated",
                                callback |-> LatestCallback(h.sub, "timeUpdated"),
                                argument |-> [field |-> "currentTimeInSeconds",
                                              value |-> Num(3)]]>>

\* The window's listeners that belong to a subscription.
SubscriptionListeners == {i \in 1..Len(listeners) : listeners[i] # PageListener}

\* C22: subscriptions are independent. Every subscription that was set up and
\* not disposed has exactly one listener on the window and a disposed one has
\* none; the callback slots of a subscription hold what was registered on that
\* subscription and nothing registered on another; a valid message from an
\* accepted origin reaches every subscription that is not disposed exactly
\* once, and each of them invokes its own callback for the message's slot.
C22_SubscriptionsIndependent ==
    /\ \A i, j \in SubscriptionListeners : listeners[i] = listeners[j] => i = j
    /\ {listeners[i] : i \in SubscriptionListeners} = (1..subs) \ disposed
    /\ \A s \in Subscriptions, slot \in Slots(facade) :
           eventCallbacks[s][slot] = LatestCallback(s, slot)
    /\ (Delivered /\ FromAcceptedOrigin /\ delivery.event.data \in ValidData)
       => /\ {h.sub : h \in Handled} = (1..subs) \ disposed
          /\ Len(delivery.handled) = Cardinality((1..subs) \ disposed)
          /\ \A h \in Handled :
                 LET slot == SlotOf(facade, delivery.event.data.type)
                 IN  h.invoked =
                         IF slot = None \/ LatestCallback(h.sub, slot) = None THEN <<>>
                         ELSE <<[slot |-> slot,
                                 callback |-> LatestCallback(h.sub, slot),
                                 argument |-> ArgumentOf(slot, delivery.event.data)]>>

\* C22 witness: two subscriptions with different play callbacks are both
\* registered, and a valid play message from the site reached both, each
\* invoking its own callback.
C22_Witness ==
    /\ subs = 2 /\ disposed = {}
    /\ LatestCallback(1, "play") # None /\ LatestCallback(2, "play") # None
    /\ LatestCallback(1, "play") # LatestCallback(2, "play")
    /\ Delivered /\ FromAcceptedOrigin
    /\ delivery.event.data = ObjectData("video:play", Num(42), Absent)
    /\ \A s \in {1, 2} : \E h \in Handled :
           h.sub = s /\ Len(h.invoked) = 1 /\ h.invoked[1].callback = LatestCallback(s, "play")

\* The manifest could not be fetched: the fetch failed, or the CDN answered
\* with an HTTP error status.
ManifestNotFetched == outcome.message = "fetch failed" \/ ~responseOk

\* C23 as stated: the manifest fetch is attempted exactly once, on origin +
\* pathname + signed query string; once the call has settled for a manifest
\* that could not be fetched, its promise is rejected, nothing has been
\* rewritten and no blob has been created.
C23_FetchOnceRejectOnFailure ==
    /\ pc = "idle" => fetched = <<>>
    /\ pc # "idle" => fetched = <<opts.origin \o opts.pathname \o opts.signed>>
    /\ (pc \in {"resolved", "rejected"} /\ ManifestNotFetched)
       => /\ pc = "rejected"
          /\ outcome.kind = "error"
          /\ blobs = <<>>

\* A line that is blank or a comment or directive other than a key directive
\* (the #EXTM3U header included), white space around it aside.
IsPassThrough(l) ==
    LET t == Trim(l) IN t = <<>> \/ (StartsWithHash(t) /\ ~StartsWithKeyTag(t))

\* The streaming patch leaves the pass-through lines of every fragment as they
\* are, character for character.
StreamingVerbatim ==
    \A k \in RewritingSteps :
        /\ Len(StepOut(k)) = Len(StepIn(k))
        /\ \A i \in 1..Len(StepIn(k)) :
               IsPassThrough(StepIn(k)[i]) => StepOut(k)[i] = StepIn(k)[i]

\* The input lines the offline rewrite emits a line for: all of them with a
\* key, those that are no key directive without one.
IsNoKeyLine(l) == ~IsKeyLine(l)
EmittedLines == IF KeySupplied THEN InLines ELSE SelectSeq(InLines, IsNoKeyLine)

\* C24 as stated: both rewrite modes emit the header, blank lines and every
\* comment or directive line other than a key directive character for
\* character as in the input, white space around the line included.
C24_PassThroughVerbatim ==
    /\ StreamingVerbatim
    /\ (Resolved /\ EmittedLines # <<>>)
       => /\ Len(OutLines) = Len(EmittedLines)
          /\ \A i \in 1..Len(EmittedLines) :
                 IsPassThrough(EmittedLines[i]) => OutLines[i] = EmittedLines[i]

\* C24 amended: the streaming patch emits these lines character for character
\* as in the input; the offline rewrite emits them with leading and trailing
\* white space trimmed (a carriage return at the end of the line is dropped
\* and a line of blanks becomes the empty line).
C24_PassThroughVerbatimOrTrimmed ==
    /\ StreamingVerbatim
    /\ (Resolved /\ EmittedLines # <<>>)
       => /\ Len(OutLines) = Len(EmittedLines)
          /\ \A i \in 1..Len(EmittedLines) :
                 IsPassThrough(EmittedLines[i]) => OutLines[i] = Trim(EmittedLines[i])

\* C24 witness: the live facade has rewritten a playlist with a header that
\* ends in a carriage return in both modes: the offline rewrite emitted the
\* header without it and the streaming patch with it.
C24_Witness ==
    /\ Resolved
    /\ InLines[1] = HeaderLineCR
    /\ OutLines[1] = HeaderLine
    /\ \E k \in RewritingSteps : StepIn(k)[1] = HeaderLineCR /\ StepOut(k)[1] = HeaderLineCR

\* C25 as stated: every successful rewrite keeps the line structure of the
\* playlist: the offline output (either facade, with or without a key) and
\* the output of every streaming patch have exactly as many lines as their
\* input, and output line i is derived from input line i: a key line from a
\* key line, a reference from a reference, any other line from itself.
C25_LineStructureKept ==
    /\ Resolved
       => /\ Len(OutLines) = Len(InLines)
          /\ \A i \in 1..Len(InLines) :
                 /\ IsKeyLine(InLines[i]) <=> IsKeyLine(OutLines[i])
                 /\ IsTrimmedReference(InLines[i]) <=> IsReference(OutLines[i])
                 /\ IsPassThrough(InLines[i]) => OutLines[i] = Trim(InLines[i])
    /\ \A k \in RewritingSteps :
           /\ Len(StepOut(k)) = Len(StepIn(k))
           /\ \A i \in 1..Len(StepIn(k)) :
                  /\ IsKeyLine(StepIn(k)[i]) <=> IsKeyLine(StepOut(k)[i])
                  /\ IsTrimmedReference(StepIn(k)[i]) <=> IsTrimmedReference(StepOut(k)[i])
                  /\ IsPassThrough(StepIn(k)[i]) => StepOut(k)[i] = StepIn(k)[i]

\* The calls that got their manifest and have run to their end.
RewrittenCalls ==
    {c \in 1..Len(playbackCalls) :
        playbackCalls[c].pc # "fetching" /\ playbackCalls[c].message # "fetch failed"}

CallIn(c) == Split(playbackCalls[c].served, NL)
CallOut(c) == Split(playbackCalls[c].blob, NL)
CallKeyLines(c) == {i \in 1..Len(CallIn(c)) : IsKeyLine(CallIn(c)[i])}

\* C26: whatever calls ran before a call or while it was suspended at its
\* fetch, the call ends as it does when it runs alone: rejected for the same
\* manifests and else with the same rewritten text; with a key, its manifest
\* has its own first key line patched and its later key lines passed on.
C26_FlagPrivateToInvocation ==
    \A c \in RewrittenCalls :
        LET alone ==
                processM3U8(facade, playbackCalls[c].served, M3U8Options(facade, opts))
        IN  /\ (playbackCalls[c].pc = "rejected") <=> alone.threw
            /\ playbackCalls[c].pc = "resolved" => playbackCalls[c].blob = alone.text
            /\ (playbackCalls[c].pc = "resolved" /\ KeySupplied)
               => /\ Len(CallOut(c)) = Len(CallIn(c))
                  /\ \A i \in CallKeyLines(c) :
                         CallOut(c)[i] =
                             IF \A j \in CallKeyLines(c) : i <= j
                             THEN PatchedKeyLine(SuppliedKeyUri, IVOf(Trim(CallIn(c)[i])))
                             ELSE Trim(CallIn(c)[i])

\* C26 witness: two calls for different manifests overlapped at their fetch
\* and both resolved with a manifest that has a patched key line.
C26_Witness ==
    /\ Len(playbackCalls) = 2 /\ KeySupplied
    /\ playbackCalls[2].overlapped
    /\ keyInsertedLeft
    /\ \A c \in {1, 2} :
           /\ playbackCalls[c].pc = "resolved"
           /\ CallKeyLines(c) # {}
           /\ \E i \in CallKeyLines(c) :
                  CallOut(c)[i] = PatchedKeyLine(SuppliedKeyUri, IVOf(Trim(CallIn(c)[i])))
    /\ playbackCalls[1].served # playbackCalls[2].served

\* C27: on the live facade a valid 'video:livestream-ended' message from an
\* accepted origin invokes, in every subscription that has one, the callback
\* registered with onLivestreamEnded, once and without argument, and no other
\* callback; a valid 'webrtc:livestream-ended' message passes validation (no
\* handler warns or throws) and invokes no callback, whatever is registered.
C27_LivestreamEndedEvents ==
    (facade = "live" /\ Delivered /\ FromAcceptedOrigin)
    => /\ delivery.event.data = ObjectData("video:livestream-ended", Absent, Absent)
          => \A h \in Handled :
                 h.invoked =
                     IF LatestCallback(h.sub, "livestreamEnded") = None THEN <<>>
                     ELSE <<[slot |-> "livestreamEnded",
                             callback |-> LatestCallback(h.sub, "livestreamEnded"),
                             argument |-> [field |-> "", value |-> Absent]]>>
       /\ delivery.event.data = ObjectData("webrtc:livestream-ended", Absent, Absent)
          => /\ Handled # {} <=> ActiveSubs # {}
             /\ \A h \in Handled : h.invoked = <<>> /\ ~h.warned /\ ~h.threw

\* C27 witness: a 'webrtc:livestream-ended' message from the site reached a
\* live subscription that has a callback registered with onLivestreamEnded,
\* and nothing was invoked and nothing was warned about.
C27_Witness ==
    /\ facade = "live" /\ Delivered /\ FromAcceptedOrigin
    /\ delivery.event.data = ObjectData("webrtc:livestream-ended", Absent, Absent)
    /\ \E h \in Handled :
           /\ LatestCallback(h.sub, "livestreamEnded") # None
           /\ h.invoked = <<>> /\ ~h.warned

\* Key URIs that are not null: the one built from the hex key, one that
\* points to a key server, and the empty string.
NonNullKeyUris == {KeyUriOf(HexKey), <<"https://keys.example.com/key">>, <<>>}

\* The options of a rewrite of the served manifest with a given key URI.
OptionsWithKeyUri(keyUri) ==
    [segmentBaseUrl |-> SegmentBaseUrl(opts.origin, opts.pathname),
     signedUrlSearchParams |-> opts.signed,
     keyUri |-> keyUri]

\* The facade a page does not use.
OtherFacade == IF facade = "live" THEN "recorded" ELSE "live"

C29_PatchedExactlyOnce ==
    (/\ lastSuccess.cb # None
     /\ lastSuccess.delivered.kind = "string"
     /\ \A k \in 1..Len(lastSuccess.steps) : lastSuccess.steps[k].type \in PatchedTypes)
    => lastSuccess.engine =
           <<[kind |-> "string", data |-> patchM3U8(lastSuccess.delivered.data, Cfg)]>>

\* The handler of subscription s has invoked a callback that threw, for the
\* delivered message.
CallbackThrewIn(s) ==
    /\ Delivered
    /\ \E h \in Handled : h.sub = s /\ h.invoked # <<>> /\ Throws(h.invoked[1].callback)

\* After every step: a handler whose callback threw has caught the exception
\* (it did not throw itself), has warned, and is still registered.
ExceptionCaught ==
    \A h \in Handled :
        (h.invoked # <<>> /\ Throws(h.invoked[1].callback))
        => ~h.threw /\ h.warned /\ h.sub \in ActiveSubs

\* C30: an exception thrown by a registered callback during dispatch does not
\* leave the message handler: the handler catches it and warns, its listener
\* stays registered, and a valid message that comes next from an accepted
\* origin is dispatched by the same handler again (to the same callback when
\* it is of the same type).
C30_CallbackExceptionCaught ==
    [][/\ ExceptionCaught'
       /\ \A s \in Subscriptions :
              (CallbackThrewIn(s) /\ Delivered' /\ FromAcceptedOrigin'
                   /\ delivery'.event.data \in ValidData)
              => \E h \in Handled' :
                     /\ h.sub = s
                     /\ ~h.threw
                     /\ delivery'.event.data = delivery.event.data
                            => \E g \in Handled : g.sub = s /\ h.invoked = g.invoked]_vars

\* C30 witness: a play message from the site reached two subscriptions; the
\* play callback of the first threw, its handler warned and did not throw,
\* and the second subscription's callback was invoked all the same.
C30_Witness ==
    /\ Delivered /\ FromAcceptedOrigin
    /\ delivery.event.data = ObjectData("video:play", Num(42), Absent)
    /\ Len(delivery.handled) = 2
    /\ delivery.handled[1].invoked # <<>>
    /\ Throws(delivery.handled[1].invoked[1].callback)
    /\ delivery.handled[1].warned /\ ~delivery.handled[1].threw
    /\ delivery.handled[2].invoked # <<>>
    /\ delivery.handled[1].sub \in ActiveSubs

====
